---- MODULE Spec2Model ----
(***************************************************************************)
(* Model of app.py: the two request handlers generate_report and           *)
(* download_pdf.  Strings that the code measures, splits, strips or        *)
(* searches are sequences of one-character strings; form fields and fixed  *)
(* messages that the code only compares are TLA+ strings.                  *)
(***************************************************************************)
EXTENDS Integers, Sequences, FiniteSets, TLC

VARIABLES
    apiKeySet,      \* os.getenv('GEMINI_API_KEY') is truthy
    form,           \* request.form of the generate_report request
    attempts,       \* the generate_content calls made, in order, with their outcome
    response,       \* what generate_report returned
    pc,             \* "idle" | "done"
    pdfReq,         \* the JSON body of the download_pdf request
    cells,          \* the body pdf.cell calls of the line loop, in order
    tmp_file_path,  \* download_pdf's local variable
    tmpOnDisk,      \* the NamedTemporaryFile exists in the file system
    tmpCreated,     \* the NamedTemporaryFile was created during this request
    pdfResp,        \* what download_pdf returned
    pdfPc           \* "idle" | "sent" (response open) | "done"

vars == <<apiKeySet, form, attempts, response, pc,
          pdfReq, cells, tmp_file_path, tmpOnDisk, tmpCreated, pdfResp, pdfPc>>

reportVars == <<apiKeySet, form, attempts, response, pc>>
pdfVars == <<pdfReq, cells, tmp_file_path, tmpOnDisk, tmpCreated, pdfResp, pdfPc>>

----------------------------------------------------------------------------
(* Bounds *)

\* the report text of a download request is made of at most MaxPieces pieces
MaxPieces == 5
\* a model's response text has at most MaxTextLen characters
MaxTextLen == 2

----------------------------------------------------------------------------
(* Characters and Python's string operations *)

SP == " "
TAB == "\t"
NL == "\n"

\* the characters str.strip() removes
Whitespace == {SP, TAB, NL}

\* s.strip(): s without its leading and trailing whitespace
Strip(s) ==
    IF \A i \in 1..Len(s) : s[i] \in Whitespace
    THEN <<>>
    ELSE LET first == CHOOSE i \in 1..Len(s) :
                        s[i] \notin Whitespace /\ \A j \in 1..(i - 1) : s[j] \in Whitespace
             last == CHOOSE i \in 1..Len(s) :
                        s[i] \notin Whitespace /\ \A j \in (i + 1)..Len(s) : s[j] \in Whitespace
         IN  SubSeq(s, first, last)

\* the pieces of s between the characters of seps: one more piece than separators
SplitOn(s, seps) ==
    LET pos == {i \in 1..Len(s) : s[i] \in seps}
        n == Cardinality(pos)
        at(k) == IF k = 0 THEN 0
                 ELSE IF k = n + 1 THEN Len(s) + 1
                 ELSE CHOOSE p \in pos : Cardinality({q \in pos : q < p}) = k - 1
    IN  [k \in 1..(n + 1) |-> SubSeq(s, at(k - 1) + 1, at(k) - 1)]

\* s.split(sep) with an explicit one-character separator
Split(s, sep) == SplitOn(s, {sep})

\* the letters of the provider messages, and their upper case
UpperOf ==
    "a" :> "A" @@ "p" :> "P" @@ "i" :> "I" @@ "k" :> "K" @@ "e" :> "E" @@
    "y" :> "Y" @@ "u" :> "U" @@ "o" :> "O" @@ "t" :> "T" @@ "l" :> "L" @@
    "m" :> "M" @@ "d" :> "D" @@ "w" :> "W" @@ "n" :> "N" @@ "q" :> "Q"

\* s.upper()
Upper(s) == [i \in 1..Len(s) |-> IF s[i] \in DOMAIN UpperOf THEN UpperOf[s[i]] ELSE s[i]]

\* sub in s
In(sub, s) == \E i \in 1..(Len(s) - Len(sub) + 1) : SubSeq(s, i, i + Len(sub) - 1) = sub

----------------------------------------------------------------------------
(* generate_report *)

\* request.form.get(...) of a field the form does not carry
None == "<None>"

\* bool(v) of a form field
Truthy(v) == v # None /\ v # ""

CURRENCIES ==
    <<"USDINR", "EURUSD", "USDJPY", "USDAUD", "USDPHP", "USDZAR", "USDMXN", "USDBRL">>

\* the membership test left out: every code passes
CurrencyAllowedAny(currency) == TRUE

\* currency in CURRENCIES
CurrencyAllowed(currency) == \E i \in 1..Len(CURRENCIES) : CURRENCIES[i] = currency

\* the currency fields a client may send
CurrencyInputs == {None, "", "USDINR", "USDBRL", "GBPUSD", "usdinr"}

\* the date fields a client may send
DateInputs == {None, "", "05/01/2025", "2025-05-01", "2025-5-1", "2025-05-31"}

\* datetime.strptime(s, '%Y-%m-%d'): the day's ordinal, or -1 for a ValueError
Strptime(s) ==
    CASE s = "2025-05-01" -> 739372
      [] s = "2025-5-1"   -> 739372
      [] s = "2025-05-31" -> 739402
      [] OTHER -> -1

Forms == [start_date : DateInputs, end_date : DateInputs, currency : CurrencyInputs]

\* the model identifiers, in the order the nested try blocks name them
ModelOrder == <<"gemini-1.5-flash", "gemini-1.5-pro", "models/gemini-pro">>

\* texts of the errors the provider's client raises
ErrMsgs == {
    <<"a", "p", "i", "_", "k", "e", "y">>,
    <<"Q", "u", "o", "t", "a">>,
    <<"l", "i", "m", "i", "t">>,
    <<"d", "o", "w", "n">> }

TextAlphabet == {SP, NL, "b"}

\* the texts a response may carry
Texts == UNION {[1..n -> TextAlphabet] : n \in 0..MaxTextLen}

\* What one identifier does when called: the call raises (msg); it returns a
\* response that has no text attribute; one whose text property raises (msg);
\* or one that carries text.
Outcomes ==
    [kind : {"raise"}, msg : ErrMsgs, text : {<<>>}]
    \cup [kind : {"notext"}, msg : {<<>>}, text : {<<>>}]
    \cup [kind : {"textraises"}, msg : ErrMsgs, text : {<<>>}]
    \cup [kind : {"text"}, msg : {<<>>}, text : Texts]

\* jsonify({'error': error}), status; detail is the text an f-string appends
ErrorResponse(status, error, detail) ==
    [status |-> status, success |-> FALSE, error |-> error, detail |-> detail,
     report |-> <<>>, currency |-> None, start_date |-> None, end_date |-> None]

\* jsonify({'success': True, 'report': ..., ...}), status 200
SuccessResponse(report_text, f) ==
    [status |-> 200, success |-> TRUE, error |-> "", detail |-> <<>>,
     report |-> report_text, currency |-> f.currency,
     start_date |-> f.start_date, end_date |-> f.end_date]

NoResponse == ErrorResponse(0, "", <<>>)

\* the checks with the dates examined before the currency
PrecheckDatesFirst(key, f) ==
    IF ~key
    THEN ErrorResponse(500, "Gemini API key is not configured", <<>>)
    ELSE IF ~(Truthy(f.start_date) /\ Truthy(f.end_date) /\ Truthy(f.currency))
    THEN ErrorResponse(400, "All fields are required", <<>>)
    ELSE IF Strptime(f.start_date) = -1 \/ Strptime(f.end_date) = -1
    THEN ErrorResponse(400, "Invalid date format", <<>>)
    ELSE IF Strptime(f.start_date) >= Strptime(f.end_date)
    THEN ErrorResponse(400, "End date must be after start date", <<>>)
    ELSE IF ~CurrencyAllowed(f.currency)
    THEN ErrorResponse(400, "Invalid currency selected", <<>>)
    ELSE NoResponse

\* the checks before the prompt is built: the response that ends the request,
\* or NoResponse when every check passes
Precheck(key, f) ==
    IF ~key
    THEN ErrorResponse(500, "Gemini API key is not configured", <<>>)
    ELSE IF ~(Truthy(f.start_date) /\ Truthy(f.end_date) /\ Truthy(f.currency))
    THEN ErrorResponse(400, "All fields are required", <<>>)
    ELSE IF ~CurrencyAllowed(f.currency)
    THEN ErrorResponse(400, "Invalid currency selected", <<>>)
    ELSE IF Strptime(f.start_date) = -1 \/ Strptime(f.end_date) = -1
    THEN ErrorResponse(400, "Invalid date format", <<>>)
    ELSE IF Strptime(f.start_date) >= Strptime(f.end_date)
    THEN ErrorResponse(400, "End date must be after start date", <<>>)
    ELSE NoResponse

Attempt(gemini, i) ==
    [model |-> ModelOrder[i], kind |-> gemini[i].kind,
     msg |-> gemini[i].msg, text |-> gemini[i].text]

\* a chain that calls every identifier whatever the earlier calls did
CallChainAll(gemini) == <<Attempt(gemini, 1), Attempt(gemini, 2), Attempt(gemini, 3)>>

\* the nested try/except: the next identifier is called when the call raised
CallChain(gemini) ==
    IF gemini[1].kind # "raise" THEN <<Attempt(gemini, 1)>>
    ELSE IF gemini[2].kind # "raise" THEN <<Attempt(gemini, 1), Attempt(gemini, 2)>>
    ELSE <<Attempt(gemini, 1), Attempt(gemini, 2), Attempt(gemini, 3)>>

\* the outer except: the response for an exception with text error_message
ClassifyError(error_message) ==
    IF In(<<"A", "P", "I", "_", "K", "E", "Y">>, Upper(error_message))
    THEN ErrorResponse(500, "Gemini API key is invalid or missing", <<>>)
    ELSE IF In(<<"Q", "U", "O", "T", "A">>, Upper(error_message))
            \/ In(<<"L", "I", "M", "I", "T">>, Upper(error_message))
    THEN ErrorResponse(500, "API quota exceeded. Please try again later.", <<>>)
    ELSE ErrorResponse(500, "An error occurred: ", error_message)

\* hasattr(response, 'text') and response.text
HasText(a) == a.kind = "text" /\ a.text # <<>>

\* the response once the call chain has ended with attempt a
Respond(a, f) ==
    IF a.kind = "raise"
    THEN ErrorResponse(500, "Unable to generate report. Please try again later.", <<>>)
    ELSE IF a.kind = "textraises"
    THEN ClassifyError(a.msg)
    ELSE IF HasText(a)
    THEN SuccessResponse(Strip(a.text), f)
    ELSE ErrorResponse(500, "Empty response from AI service", <<>>)

\* a request that a check before the prompt ends
Rejected(key, f) ==
    /\ Precheck(key, f) # NoResponse
    /\ attempts' = <<>>
    /\ response' = Precheck(key, f)

\* a request that reaches the model calls
Invoked(key, f) ==
    /\ Precheck(key, f) = NoResponse
    /\ \E gemini \in [1..3 -> Outcomes] :
        /\ attempts' = CallChain(gemini)
        /\ response' = Respond(CallChain(gemini)[Len(CallChain(gemini))], f)

GenerateReport ==
    /\ pc = "idle"
    /\ \E key \in BOOLEAN, f \in Forms :
        /\ apiKeySet' = key
        /\ form' = f
        /\ Rejected(key, f) \/ Invoked(key, f)
    /\ pc' = "done"
    /\ UNCHANGED pdfVars

----------------------------------------------------------------------------
(* download_pdf *)

\* `if len(line) > 80`: lines longer than this are wrapped
LongLine == 80
\* `if len(current_line + word) < 80`: the width the wrap loop packs words under
WrapWidth == 80

\* the word joins the current line
Fits(current_line, word) == Len(current_line \o word) < WrapWidth

\* a reset of current_line that loses the word that did not fit
HeldOverLost(word) == <<>>

\* current_line after the line before it was flushed
HeldOver(word) == word \o <<SP>>

\* `if current_line.strip(): pdf.cell(0, 6, current_line.strip(), 0, 1)`
Flush(out, current_line) ==
    LET stripped == Strip(current_line)
    IN  IF stripped # <<>> THEN Append(out, stripped) ELSE out

\* the `for word in words` loop and the flush after it: the texts of the
\* pdf.cell calls, out being those already made
RECURSIVE WrapWords(_, _, _)
WrapWords(words, current_line, out) ==
    IF words = <<>>
    THEN Flush(out, current_line)
    ELSE IF Fits(current_line, Head(words))
    THEN WrapWords(Tail(words), current_line \o Head(words) \o <<SP>>, out)
    ELSE WrapWords(Tail(words), HeldOver(Head(words)), Flush(out, current_line))

\* one iteration of `for line in lines`: the texts of its pdf.cell calls
LineCells(line) ==
    IF Len(line) > LongLine
    THEN WrapWords(Split(line, SP), <<>>, <<>>)
    ELSE <<line>>

\* the pdf.cell calls of the line loop from line i on, each with the index of
\* the input line it was made for
RECURSIVE BodyFrom(_, _)
BodyFrom(lines, i) ==
    IF i > Len(lines)
    THEN <<>>
    ELSE LET made == LineCells(lines[i])
         IN  [k \in 1..Len(made) |-> [line |-> i, txt |-> made[k]]] \o BodyFrom(lines, i + 1)

\* lines = report_text.split('\n') and the loop over them
PdfBody(report_text) == BodyFrom(Split(report_text, NL), 1)

\* what report texts are made of: separators, a 27-letter and a 40-letter run
Pieces == {<<SP>>, <<TAB>>, <<NL>>, [i \in 1..27 |-> "b"], [i \in 1..40 |-> "c"]}

RECURSIVE Concat(_)
Concat(ss) == IF ss = <<>> THEN <<>> ELSE Head(ss) \o Concat(Tail(ss))

\* the report texts a client may send
ReportTexts == {Concat(ps) : ps \in UNION {[1..n -> Pieces] : n \in 0..MaxPieces}}

PdfResponse(status, error) == [status |-> status, error |-> error]

\* request.get_json() returns None: data.get raises, and the handler's except
\* answers with tmp_file_path still None
NoBody ==
    /\ pdfReq' = [hasBody |-> FALSE, report |-> <<>>]
    /\ cells' = <<>>
    /\ tmp_file_path' = None
    /\ tmpCreated' = FALSE
    /\ tmpOnDisk' = FALSE
    /\ pdfResp' = PdfResponse(500, "Error generating PDF: ")
    /\ pdfPc' = "done"

\* `if not report_text`
NoReport ==
    /\ pdfReq' = [hasBody |-> TRUE, report |-> <<>>]
    /\ cells' = <<>>
    /\ tmp_file_path' = None
    /\ tmpCreated' = FALSE
    /\ tmpOnDisk' = FALSE
    /\ pdfResp' = PdfResponse(400, "No report text provided")
    /\ pdfPc' = "done"

\* the handler's except: `if tmp_file_path and os.path.exists(tmp_file_path)`
\* decides whether the file is unlinked; the result is whether it is on disk
ExceptCleanup(path, onDisk) == IF path # None /\ onDisk THEN FALSE ELSE onDisk

\* The body is laid out and the temporary file created inside the with
\* block; pdf.output(tmp_file.name) raises (outputOk false) before
\* tmp_file_path is assigned, or send_file raises (sendOk false) after it, or
\* the response is returned with cleanup_file registered on its close.
Render(report_text, outputOk, sendOk) ==
    /\ pdfReq' = [hasBody |-> TRUE, report |-> report_text]
    /\ cells' = PdfBody(report_text)
    /\ tmpCreated' = TRUE
    /\ tmp_file_path' = IF outputOk THEN "tmp.pdf" ELSE None
    /\ IF outputOk /\ sendOk
       THEN /\ tmpOnDisk' = TRUE
            /\ pdfResp' = PdfResponse(200, "")
            /\ pdfPc' = "sent"
       ELSE /\ tmpOnDisk' = ExceptCleanup(tmp_file_path', TRUE)
            /\ pdfResp' = PdfResponse(500, "Error generating PDF: ")
            /\ pdfPc' = "done"

DownloadPdf ==
    /\ pdfPc = "idle"
    /\ \/ NoBody
       \/ NoReport
       \/ \E report_text \in ReportTexts \ {<<>>}, outputOk \in BOOLEAN, sendOk \in BOOLEAN :
            /\ (~outputOk => sendOk)    \* send_file is not reached when pdf.output raised
            /\ Render(report_text, outputOk, sendOk)
    /\ UNCHANGED reportVars

\* cleanup_file, called when the response is closed
CloseResponse ==
    /\ pdfPc = "sent"
    /\ tmpOnDisk' = IF tmp_file_path # None /\ tmpOnDisk THEN FALSE ELSE tmpOnDisk
    /\ pdfPc' = "done"
    /\ UNCHANGED <<pdfReq, cells, tmp_file_path, tmpCreated, pdfResp>>
    /\ UNCHANGED reportVars

----------------------------------------------------------------------------
(* Specifications *)

Init ==
    /\ apiKeySet = FALSE
    /\ form = [start_date |-> None, end_date |-> None, currency |-> None]
    /\ attempts = <<>>
    /\ response = NoResponse
    /\ pc = "idle"
    /\ pdfReq = [hasBody |-> FALSE, report |-> <<>>]
    /\ cells = <<>>
    /\ tmp_file_path = None
    /\ tmpOnDisk = FALSE
    /\ tmpCreated = FALSE
    /\ pdfResp = PdfResponse(0, "")
    /\ pdfPc = "idle"

\* a generate_report request
Next == GenerateReport

Spec == Init /\ [][Next]_vars

\* a download_pdf request and the close of its response
NextPdf == DownloadPdf \/ CloseResponse

SpecPdf == Init /\ [][NextPdf]_vars

----------------------------------------------------------------------------
(* Properties of generate_report, checked under Spec *)

\* a returned response with empty or missing text
EmptyText(a) == a.kind = "notext" \/ (a.kind = "text" /\ a.text = <<>>)

\* the 8 currency codes of the allow-list, written out
AllowList8 ==
    {"USDINR", "EURUSD", "USDJPY", "USDAUD", "USDPHP", "USDZAR", "USDMXN", "USDBRL"}

\* C1: the identifiers are called in the order gemini-1.5-flash, gemini-1.5-pro,
\* models/gemini-pro, each at most once; a further identifier is called only
\* after the one before it raised, and the chain stops at the first call that
\* does not raise; when identifier 1 raises and identifier 2 returns text, the
\* report is identifier 2's text (stripped) and identifier 3 is not called.
C1_FallbackOrder ==
    pc = "done" =>
        /\ Len(attempts) <= 3
        /\ \A i \in 1..Len(attempts) :
            attempts[i].model = <<"gemini-1.5-flash", "gemini-1.5-pro", "models/gemini-pro">>[i]
        /\ \A i \in 1..(Len(attempts) - 1) : attempts[i].kind = "raise"
        /\ (attempts # <<>> /\ Len(attempts) < 3 => attempts[Len(attempts)].kind # "raise")
        /\ (/\ Len(attempts) >= 2
            /\ attempts[1].kind = "raise"
            /\ attempts[2].kind = "text"
            /\ attempts[2].text # <<>>
            => /\ Len(attempts) = 2
               /\ response.success
               /\ response.report = Strip(attempts[2].text))

\* identifier 1 raised, identifier 2 returned the text "b", which is the report
C1_Witness ==
    /\ pc = "done"
    /\ Len(attempts) = 2
    /\ attempts[1].kind = "raise"
    /\ attempts[2].kind = "text"
    /\ response.success
    /\ response.report = <<"b">>

\* C2 (as claimed): a call that returns empty or missing text is followed by a
\* call of the next identifier, and the empty-response error is returned only
\* after the last identifier has been tried.
C2_EmptyAdvances ==
    pc = "done" =>
        /\ \A i \in 1..Len(attempts) : EmptyText(attempts[i]) /\ i < 3 => Len(attempts) > i
        /\ (response.error = "Empty response from AI service" => Len(attempts) = 3)

\* C6 (as claimed): a currency outside the allow-list gets a 400 response and no
\* model call, whether or not the API credential is set.
C6_InvalidCurrency400 ==
    pc = "done" /\ form.currency \notin AllowList8 =>
        response.status = 400 /\ attempts = <<>>

\* C6 (amended): a currency outside the allow-list never reaches a model call;
\* with the API credential set the response is a 400 validation error, and
\* without it the response is the 500 'Gemini API key is not configured'.
C6_InvalidCurrencyRejected ==
    pc = "done" /\ form.currency \notin AllowList8 =>
        /\ attempts = <<>>
        /\ ~response.success
        /\ (apiKeySet =>
                /\ response.status = 400
                /\ response.error \in {"All fields are required", "Invalid currency selected"})
        /\ (~apiKeySet =>
                /\ response.status = 500
                /\ response.error = "Gemini API key is not configured")

\* the credential is set, the currency is not in the list, the dates are valid
C6_Witness ==
    /\ pc = "done"
    /\ apiKeySet
    /\ form.currency = "GBPUSD"
    /\ form.start_date = "2025-05-01"
    /\ form.end_date = "2025-05-31"
    /\ response.status = 400

\* C8 (as claimed): when the three model calls fail with an error text, the
\* response is classified from that text: the API-key marker gives the
\* authentication message, a quota or limit marker the quota message, any
\* other text a generic message.
C8_ModelErrorsClassified ==
    /\ pc = "done"
    /\ Len(attempts) = 3
    /\ \A i \in 1..3 : attempts[i].kind = "raise" /\ attempts[i].msg = attempts[3].msg
    => LET text == Upper(attempts[3].msg)
           auth == In(<<"A", "P", "I", "_", "K", "E", "Y">>, text)
           quota == In(<<"Q", "U", "O", "T", "A">>, text) \/ In(<<"L", "I", "M", "I", "T">>, text)
       IN  /\ response.status = 500
           /\ (auth => response.error = "Gemini API key is invalid or missing")
           /\ (~auth /\ quota => response.error = "API quota exceeded. Please try again later.")
           /\ (~auth /\ ~quota =>
                  response.error \in {"An error occurred: ",
                                      "Unable to generate report. Please try again later."})

\* C9: the checks are applied in the order presence, currency membership,
\* date parse, date order: a 400 response carries the error of the first check
\* in that order that the request fails, and, the credential being set, a
\* request that fails a check gets a 400 response.
C9_ValidationOrder ==
    pc = "done" =>
        LET missing == ~(Truthy(form.start_date) /\ Truthy(form.end_date) /\ Truthy(form.currency))
            badCurrency == form.currency \notin AllowList8
            badDate == Strptime(form.start_date) = -1 \/ Strptime(form.end_date) = -1
            badOrder == Strptime(form.start_date) >= Strptime(form.end_date)
            firstFailing ==
                IF missing THEN "All fields are required"
                ELSE IF badCurrency THEN "Invalid currency selected"
                ELSE IF badDate THEN "Invalid date format"
                ELSE IF badOrder THEN "End date must be after start date"
                ELSE ""
        IN  /\ (response.status = 400 =>
                    /\ firstFailing # ""
                    /\ response.error = firstFailing
                    /\ attempts = <<>>)
            /\ (apiKeySet /\ firstFailing # "" => response.status = 400)

\* an invalid currency together with unparseable dates reports the currency
C9_Witness ==
    /\ pc = "done"
    /\ apiKeySet
    /\ form.currency = "GBPUSD"
    /\ form.start_date = "05/01/2025"
    /\ form.end_date = "05/01/2025"
    /\ response.error = "Invalid currency selected"

\* C10 (as claimed): a success payload carries a non-empty report.
C10_SuccessReportNonEmpty ==
    pc = "done" /\ response.success => response.report # <<>>

----------------------------------------------------------------------------
(* Properties of download_pdf, checked under SpecPdf *)

\* the input lines of the request's report
InputLines == Split(pdfReq.report, NL)

\* the texts of the pdf.cell calls made for input line i, in order
CellsOf(i) ==
    LET made == SelectSeq(cells, LAMBDA c : c.line = i)
    IN  [k \in 1..Len(made) |-> made[k].txt]

NonEmpty(ss) == SelectSeq(ss, LAMBDA x : x # <<>>)

\* the non-empty words of the texts ss, read in order, words being delimited by
\* the characters of seps
RECURSIVE WordsOf(_, _)
WordsOf(ss, seps) ==
    IF ss = <<>> THEN <<>> ELSE NonEmpty(SplitOn(Head(ss), seps)) \o WordsOf(Tail(ss), seps)

\* C3 (as claimed): every body line given to pdf.cell is at most 80 characters.
C3_CellsWithinWidth ==
    \A k \in 1..Len(cells) : Len(cells[k].txt) <= 80

\* C4 (as claimed): an input line of exactly 80 characters is emitted unchanged
\* as one output line; an input line of 81 characters is emitted as at least
\* two output lines of at most 80 characters each.
C4_ExactAndOneOver ==
    tmpCreated =>
        \A i \in 1..Len(InputLines) :
            /\ (Len(InputLines[i]) = 80 => CellsOf(i) = <<InputLines[i]>>)
            /\ (Len(InputLines[i]) = 81 =>
                    /\ Len(CellsOf(i)) >= 2
                    /\ \A k \in 1..Len(CellsOf(i)) : Len(CellsOf(i)[k]) <= 80)

\* C5 (as claimed): for a wrapped input line, the non-empty space-delimited
\* words of its output lines are the non-empty space-delimited words of the
\* input line, in order.
C5_SpaceWordsPreserved ==
    tmpCreated =>
        \A i \in 1..Len(InputLines) :
            Len(InputLines[i]) > 80 =>
                WordsOf(CellsOf(i), {SP}) = WordsOf(<<InputLines[i]>>, {SP})

\* C5 (amended): for a wrapped input line, the non-empty whitespace-delimited
\* words of its output lines are the non-empty whitespace-delimited words of
\* the input line, in order.
C5_WhitespaceWordsPreserved ==
    tmpCreated =>
        \A i \in 1..Len(InputLines) :
            Len(InputLines[i]) > 80 =>
                WordsOf(CellsOf(i), Whitespace) = WordsOf(<<InputLines[i]>>, Whitespace)

\* a wrapped input line that holds a tab and was emitted as two or more lines
C5_Witness ==
    /\ tmpCreated
    /\ \E i \in 1..Len(InputLines) :
        /\ Len(InputLines[i]) > 80
        /\ Len(CellsOf(i)) >= 2
        /\ \E j \in 1..Len(InputLines[i]) : InputLines[i][j] = TAB

\* C7 (as claimed): once the temporary file has been created, no exit path
\* leaves it on disk: it is gone when the error response is returned, and
\* when the success response has been closed.
C7_TempFileRemoved ==
    tmpCreated /\ pdfPc = "done" => ~tmpOnDisk

====
